---- MODULE Spec2Model ----
(***************************************************************************)
(* Model of the resolution core of wx-event-reliability:                   *)
(*   tools/date_parse.py  infer_time_window  (temporal expression parser)  *)
(*   tools/openmeteo.py   _map_vars          (cadence-aware mapper)        *)
(*   tools/openmeteo.py   fetch_openmeteo    (data-source router, merger)  *)
(*   tools/variables.py   pick_variables     (variable resolver)           *)
(* Calendar dates are proleptic Gregorian ordinals, as datetime.date       *)
(* counts them (date.toordinal): day 1 is 0001-01-01, a Monday.            *)
(***************************************************************************)
EXTENDS Integers, Sequences, FiniteSets, TLC

(***************************************************************************)
(* datetime.date                                                           *)
(***************************************************************************)
IsLeap(y) == (y % 4 = 0) /\ ((y % 100 /= 0) \/ (y % 400 = 0))

DaysBeforeMonthTable == <<0, 31, 59, 90, 120, 151, 181, 212, 243, 273, 304, 334>>

DaysInMonthTable == <<31, 28, 31, 30, 31, 30, 31, 31, 30, 31, 30, 31>>

DaysBeforeYear(y) ==
    LET p == y - 1 IN 365 * p + (p \div 4) - (p \div 100) + (p \div 400)

DaysBeforeMonth(y, m) ==
    DaysBeforeMonthTable[m] + (IF m > 2 /\ IsLeap(y) THEN 1 ELSE 0)

\* date(y, m, d), as its ordinal
Date(y, m, d) == DaysBeforeYear(y) + DaysBeforeMonth(y, m) + d

\* date.weekday(): Monday = 0 .. Sunday = 6
Weekday(n) == (n + 6) % 7

\* ordinal -> <<year, month, day>>, the fields date.isoformat() prints
Ord2Ymd(ord) ==
    LET n0   == ord - 1
        n400 == n0 \div 146097
        r400 == n0 % 146097
        n100 == r400 \div 36524
        r100 == r400 % 36524
        n4   == r100 \div 1461
        r4   == r100 % 1461
        n1   == r4 \div 365
        n    == r4 % 365
        year == n400 * 400 + 1 + n100 * 100 + n4 * 4 + n1
    IN  IF n1 = 4 \/ n100 = 4
        THEN <<year - 1, 12, 31>>
        ELSE
          LET leap  == (n1 = 3) /\ ((n4 /= 24) \/ (n100 = 3))
              month == (n + 50) \div 32
              prec  == DaysBeforeMonthTable[month]
                         + (IF month > 2 /\ leap THEN 1 ELSE 0)
              m2    == IF prec > n THEN month - 1 ELSE month
              p2    == IF prec > n
                       THEN prec - (DaysInMonthTable[month - 1]
                                     + (IF month - 1 = 2 /\ leap THEN 1 ELSE 0))
                       ELSE prec
          IN  <<year, m2, n - p2 + 1>>

\* date.isoformat(): the text YYYY-MM-DD, kept as its three numbers
IsoFormat(ord) == Ord2Ymd(ord)

\* date.fromisoformat()
FromIsoFormat(t) == Date(t[1], t[2], t[3])


(***************************************************************************)
(* Optional values: Nothing is Python's None, Some(x) a value              *)
(***************************************************************************)
Nothing == <<>>

Some(x) == <<x>>

Val(o) == o[1]

Min2(a, b) == IF a <= b THEN a ELSE b

Max2(a, b) == IF a >= b THEN a ELSE b

(***************************************************************************)
(* Bounds of the checked input space                                       *)
(***************************************************************************)
\* "past N day" / "last N day": N ranges over 0..MaxN
MaxN == 33
\* a query text carries at most MaxCues cues at once
MaxCues == 2
\* "today" ranges over FirstToday .. FirstToday + TodaySpan
TodaySpan == 6
\* dateparser may answer a date up to ParseFar days away from today
ParseFar == 40

\* 2024-07-08, a Monday; the range of "today" holds every weekday and
\* 2024-07-10
FirstToday == Date(2024, 7, 8)

Todays == FirstToday .. (FirstToday + TodaySpan)

\* years a query may name
QueryYears == {2023, 2024}

(***************************************************************************)
(* The query text, by the cues infer_time_window looks for in it.          *)
(* q[k] = Nothing: cue k is absent; otherwise the cue's captured groups.   *)
(* "last" is the wording "last N day(s)"; "clock" is a _TIME_HINT match.   *)
(* A query with one cue takes every captured value of CueParams; a query   *)
(* with several cues takes the values of ComboParams.                      *)
(***************************************************************************)
KindSeq ==
    << "range", "yesterday", "tomorrow", "past", "last", "last_weekend",
       "this_weekend", "this_week", "next_week", "wom", "season", "monsoon",
       "clock" >>

Kinds == { KindSeq[i] : i \in 1..Len(KindSeq) }

SeasonNames == {"spring", "summer", "autumn", "fall", "winter"}

\* month words of "<ordinal> week of <word> <year>": 0 is a word that is
\* no month name
WomMonths == {0, 2, 7, 12}

CueParams(k) ==
    CASE k = "past"    -> { <<n>> : n \in 0..MaxN }
      [] k = "last"    -> { <<n>> : n \in 0..MaxN }
      [] k = "wom"     -> { <<w, m, y>> : w \in {"first", "second", "third", "fourth"},
                                          m \in WomMonths, y \in QueryYears }
      [] k = "season"  -> { <<s, y>> : s \in SeasonNames, y \in QueryYears }
      [] k = "monsoon" -> { <<y>> : y \in QueryYears }
      [] OTHER         -> { <<"yes">> }

ComboParams(k) ==
    CASE k = "past"    -> { <<0>>, <<3>>, <<MaxN>> }
      [] k = "last"    -> { <<3>> }
      [] k = "wom"     -> { <<"second", 7, 2024>>, <<"first", 0, 2023>> }
      [] k = "season"  -> { <<"summer", 2024>>, <<"winter", 2023>> }
      [] k = "monsoon" -> { <<2023>> }
      [] OTHER         -> { <<"yes">> }

EmptyQuery == [k \in Kinds |-> Nothing]

Has(q, k) == q[k] /= Nothing

NumCues(q) == Cardinality({k \in Kinds : Has(q, k)})

RECURSIVE QueriesUpTo(_)
QueriesUpTo(i) ==
    IF i = 0 THEN {EmptyQuery}
    ELSE LET Q == QueriesUpTo(i - 1)
             k == KindSeq[i]
         IN  Q \cup { [q EXCEPT ![k] = p] :
                        q \in {x \in Q : NumCues(x) < MaxCues}, p \in ComboParams(k) }

Queries == QueriesUpTo(Len(KindSeq)) \cup
           UNION { { [EmptyQuery EXCEPT ![k] = p] : p \in CueParams(k) } : k \in Kinds }

\* lat argument: Nothing when the caller leaves it out
LatArgs == {Nothing, Some(-35), Some(0), Some(40)}

\* what dateparser.parse may answer, as a date: None or a date near today
ParseOutcomes(today) ==
    {Nothing} \cup { Some(today + k) : k \in {0 - ParseFar, -1, 0, 1, ParseFar} }

(***************************************************************************)
(* tools/date_parse.py                                                     *)
(***************************************************************************)
_last_weekend(ref) ==
    LET prev_day == ref - 1
        saturday == prev_day - ((Weekday(prev_day) - 5) % 7)
    IN  <<saturday, saturday + 1>>

\* mutant: on a Sunday the weekend is the one that holds ref
_this_weekend_SundayStays(ref) ==
    LET saturday == IF Weekday(ref) = 6 THEN ref - 1
                    ELSE ref + ((5 - Weekday(ref)) % 7)
    IN  <<saturday, saturday + 1>>

_this_weekend(ref) ==
    LET saturday == ref + ((5 - Weekday(ref)) % 7)
    IN  <<saturday, saturday + 1>>

_this_week(ref) ==
    LET start == ref - Weekday(ref)
    IN  <<start, start + 6>>

_next_week(ref) ==
    LET start_this == ref - Weekday(ref)
        start_next == start_this + 7
    IN  <<start_next, start_next + 6>>

\* mutant: the new end is one day too far
_clamp_window_LateEnd(s, e, max_days) ==
    IF (e - s) + 1 > max_days
    THEN LET new_e == s + max_days
         IN  <<s, new_e, <<"Truncated", max_days, s, new_e>> >>
    ELSE <<s, e, <<>> >>

\* mutant: the last max_days days are kept
_clamp_window_MovesStart(s, e, max_days) ==
    IF (e - s) + 1 > max_days
    THEN LET new_s == e - (max_days - 1)
         IN  <<new_s, e, <<"Truncated", max_days, new_s, e>> >>
    ELSE <<s, e, <<>> >>

\* <<s, e, note>>; note is <<>> (no note) or the truncation note's contents
_clamp_window(s, e, max_days) ==
    IF (e - s) + 1 > max_days
    THEN LET new_e == s + (max_days - 1)
         IN  <<s, new_e, <<"Truncated", max_days, s, new_e>> >>
    ELSE <<s, e, <<>> >>

\* mutant: the equator counts as southern
_season_window_ZeroIsSouth(season, yr, lat) ==
    LET s  == IF season \in {"fall", "autumn"} THEN "autumn" ELSE season
    IN  IF lat > 0
        THEN CASE s = "spring" -> <<Date(yr, 3, 1), Date(yr, 5, 31)>>
               [] s = "summer" -> <<Date(yr, 6, 1), Date(yr, 8, 31)>>
               [] s = "autumn" -> <<Date(yr, 9, 1), Date(yr, 11, 30)>>
               [] OTHER        -> <<Date(yr, 12, 1), Date(yr + 1, 2, 28)>>
        ELSE CASE s = "spring" -> <<Date(yr, 9, 1), Date(yr, 11, 30)>>
               [] s = "summer" -> <<Date(yr, 12, 1), Date(yr + 1, 2, 28)>>
               [] s = "autumn" -> <<Date(yr, 3, 1), Date(yr, 5, 31)>>
               [] OTHER        -> <<Date(yr, 6, 1), Date(yr, 8, 31)>>

_season_window(season, yr, lat) ==
    LET nh == lat >= 0
        s  == IF season \in {"fall", "autumn"} THEN "autumn" ELSE season
        nhw == CASE s = "spring" -> <<Date(yr, 3, 1), Date(yr, 5, 31)>>
                 [] s = "summer" -> <<Date(yr, 6, 1), Date(yr, 8, 31)>>
                 [] s = "autumn" -> <<Date(yr, 9, 1), Date(yr, 11, 30)>>
                 [] OTHER        -> <<Date(yr, 12, 1), Date(yr + 1, 2, 28)>>
    IN  IF nh THEN nhw
        ELSE CASE s = "spring" -> <<Date(yr, 9, 1), Date(yr, 11, 30)>>
               [] s = "summer" -> <<Date(yr, 12, 1), Date(yr + 1, 2, 28)>>
               [] s = "autumn" -> <<Date(yr, 3, 1), Date(yr, 5, 31)>>
               [] OTHER        -> <<Date(yr, 6, 1), Date(yr, 8, 31)>>


\* dateparser.parse(f"{mon} 1 {yr}"): the first of the month when the word
\* is a month name, None otherwise
ParseMonthFirst(mon, yr) ==
    IF mon \in 1..12 THEN Some(Date(yr, mon, 1)) ELSE Nothing

\* mutant: tomorrow is tried before yesterday
MatchedRule_TomorrowFirst(q) ==
    CASE Has(q, "range")        -> "range"
      [] Has(q, "tomorrow")     -> "tomorrow"
      [] Has(q, "yesterday")    -> "yesterday"
      [] Has(q, "past")         -> "past"
      [] Has(q, "last_weekend") -> "last_weekend"
      [] Has(q, "this_weekend") -> "this_weekend"
      [] Has(q, "this_week")    -> "this_week"
      [] Has(q, "next_week")    -> "next_week"
      [] Has(q, "wom")          -> "wom"
      [] Has(q, "season")       -> "season"
      [] Has(q, "monsoon")      -> "monsoon"
      [] OTHER                  -> "fallback"

\* the rule of infer_time_window's if/elif chain that a query takes
MatchedRule(q) ==
    CASE Has(q, "range")        -> "range"
      [] Has(q, "yesterday")    -> "yesterday"
      [] Has(q, "tomorrow")     -> "tomorrow"
      [] Has(q, "past")         -> "past"
      [] Has(q, "last_weekend") -> "last_weekend"
      [] Has(q, "this_weekend") -> "this_weekend"
      [] Has(q, "this_week")    -> "this_week"
      [] Has(q, "next_week")    -> "next_week"
      [] Has(q, "wom")          -> "wom"
      [] Has(q, "season")       -> "season"
      [] Has(q, "monsoon")      -> "monsoon"
      [] OTHER                  -> "fallback"

\* s, e as the chain leaves them; d1, d2, parsed are dateparser's answers
\* for the two sides of a range and for the whole query
RuleWindow(q, lat, today, d1, d2, parsed) ==
    LET r == MatchedRule(q) IN
    CASE r = "range" ->
           IF d1 /= Nothing /\ d2 /= Nothing
           THEN <<Min2(Val(d1), Val(d2)), Max2(Val(d1), Val(d2))>>
           ELSE <<today, today>>
      [] r = "yesterday"    -> <<today - 1, today - 1>>
      [] r = "tomorrow"     -> <<today + 1, today + 1>>
      [] r = "past"         -> LET n == q["past"][1] IN <<today - (n - 1), today>>
      [] r = "last_weekend" -> _last_weekend(today)
      [] r = "this_weekend" -> _this_weekend(today)
      [] r = "this_week"    -> _this_week(today)
      [] r = "next_week"    -> _next_week(today)
      [] r = "wom" ->
           LET which == q["wom"][1]
               mon   == q["wom"][2]
               yr    == q["wom"][3]
               base  == ParseMonthFirst(mon, yr)
               start == IF base /= Nothing THEN Val(base) ELSE Date(yr, 1, 1)
               add_weeks == CASE which = "first"  -> 0
                              [] which = "second" -> 1
                              [] which = "third"  -> 2
                              [] OTHER            -> 3
               s == start + add_weeks * 7
           IN  <<s, s + 6>>
      [] r = "season"  -> _season_window(q["season"][1], q["season"][2], lat)
      [] r = "monsoon" -> LET yr == q["monsoon"][1]
                          IN  <<Date(yr, 6, 1), Date(yr, 9, 30)>>
      [] OTHER -> IF parsed /= Nothing THEN <<Val(parsed), Val(parsed)>>
                  ELSE <<today, today>>

\* "Ensure s <= e"
SwapWindow(w) == IF w[2] < w[1] THEN <<w[2], w[1]>> ELSE w

\* granularity: hourly if any clock-time hint
WindowGranularity(q) == IF Has(q, "clock") THEN "hourly" ELSE "daily"

\* mutant: a window starting on today counts as future
ClassifyWindow_TodayIsFuture(s, e, today) ==
    IF e < today THEN "hindcast"
    ELSE IF s >= today THEN "forecast"
    ELSE "mixed"

\* mutant: a window ending on today counts as past
ClassifyWindow_TodayIsPast(s, e, today) ==
    IF e <= today THEN "hindcast"
    ELSE IF s > today THEN "forecast"
    ELSE "mixed"

\* classify time intent for downstream fetch logic
ClassifyWindow(s, e, today) ==
    IF e < today THEN "hindcast"
    ELSE IF s > today THEN "forecast"
    ELSE "mixed"

\* the lat parameter's default
LatOrDefault(latArg) == IF latArg = Nothing THEN 0 ELSE Val(latArg)

MaxWindowDays == 31

infer_time_window(q, latArg, today, d1, d2, parsed) ==
    LET raw  == RuleWindow(q, LatOrDefault(latArg), today, d1, d2, parsed)
        sw   == SwapWindow(raw)
        cl   == _clamp_window(sw[1], sw[2], MaxWindowDays)
        mode == ClassifyWindow(cl[1], cl[2], today)
    IN  [ start_date  |-> IsoFormat(cl[1]),
          end_date    |-> IsoFormat(cl[2]),
          granularity |-> WindowGranularity(q),
          time_mode   |-> mode,
          snap_hint   |-> [ now_utc |-> today,
                            prefer_latest_model_run |-> (mode /= "hindcast") ],
          explanation |-> [ s |-> cl[1], e |-> cl[2],
                            granularity |-> WindowGranularity(q),
                            mode |-> mode, note |-> cl[3] ] ]

\* the dateparser calls a resolution makes on free text, with the answers
\* they may give: <<d1, d2, parsed>>, Nothing where no call is made
ParserAnswers(q, today) ==
    LET r == MatchedRule(q) IN
    CASE r = "range" ->
           { <<d1, d2, Nothing>> : d1 \in ParseOutcomes(today), d2 \in ParseOutcomes(today) }
      [] r = "fallback" ->
           { <<Nothing, Nothing, parsed>> : parsed \in ParseOutcomes(today) }
      [] OTHER -> { <<Nothing, Nothing, Nothing>> }

(***************************************************************************)
(* tools/variables.py                                                      *)
(***************************************************************************)
VARIABLE_CONFIG ==
    "precipitation" :> [ hourly |-> <<"precipitation">>,
                          daily |-> <<"precipitation_sum">>,
                          default |-> "daily",
                          synonyms |-> <<"rain", "rainfall", "precip", "wet">> ] @@
    "rain" :> [ hourly |-> <<"rain">>,
                 daily |-> <<"rain_sum">>,
                 default |-> "daily",
                 synonyms |-> <<>> ] @@
    "snowfall" :> [ hourly |-> <<"snowfall">>,
                     daily |-> <<"snowfall_sum">>,
                     default |-> "daily",
                     synonyms |-> <<"snow">> ] @@
    "precipitation_hours" :> [ hourly |-> <<>>,
                                daily |-> <<"precipitation_hours">>,
                                default |-> "daily",
                                synonyms |-> <<"hours of rain">> ] @@
    "temperature_2m" :> [ hourly |-> <<"temperature_2m">>,
                           daily |-> <<"temperature_2m_min", "temperature_2m_max", "temperature_2m_mean">>,
                           default |-> "hourly",
                           synonyms |-> <<"temperature", "temp", "cooler", "hotter", "heat", "cold", "warm">> ] @@
    "apparent_temperature" :> [ hourly |-> <<"apparent_temperature">>,
                                 daily |-> <<"apparent_temperature_min", "apparent_temperature_max", "apparent_temperature_mean">>,
                                 default |-> "hourly",
                                 synonyms |-> <<"feels like", "feels-like">> ] @@
    "relative_humidity_2m" :> [ hourly |-> <<"relative_humidity_2m">>,
                                 daily |-> <<"relative_humidity_2m_mean">>,
                                 default |-> "hourly",
                                 synonyms |-> <<"humidity", "humid">> ] @@
    "dew_point_2m" :> [ hourly |-> <<"dew_point_2m">>,
                         daily |-> <<>>,
                         default |-> "hourly",
                         synonyms |-> <<"dew point">> ] @@
    "cloud_cover" :> [ hourly |-> <<"cloud_cover">>,
                        daily |-> <<"cloud_cover_mean">>,
                        default |-> "hourly",
                        synonyms |-> <<"cloudy", "overcast", "clear", "cloud cover">> ] @@
    "uv_index" :> [ hourly |-> <<>>,
                     daily |-> <<"uv_index_max", "uv_index_clear_sky_max">>,
                     default |-> "daily",
                     synonyms |-> <<"uv", "uv index", "sunburn">> ] @@
    "sunrise_sunset" :> [ hourly |-> <<>>,
                           daily |-> <<"sunrise", "sunset">>,
                           default |-> "daily",
                           synonyms |-> <<"sunrise", "sunset">> ] @@
    "shortwave_radiation" :> [ hourly |-> <<"shortwave_radiation">>,
                                daily |-> <<"shortwave_radiation_sum">>,
                                default |-> "hourly",
                                synonyms |-> <<"solar radiation", "irradiance">> ] @@
    "wind_speed_10m" :> [ hourly |-> <<"wind_speed_10m">>,
                           daily |-> <<"wind_speed_10m_max", "wind_gusts_10m_max">>,
                           default |-> "hourly",
                           synonyms |-> <<"wind", "wind speed", "breeze">> ] @@
    "wind_direction_10m" :> [ hourly |-> <<"wind_direction_10m">>,
                               daily |-> <<>>,
                               default |-> "hourly",
                               synonyms |-> <<"wind direction">> ] @@
    "wind_gusts_10m" :> [ hourly |-> <<"wind_gusts_10m">>,
                           daily |-> <<"wind_gusts_10m_max">>,
                           default |-> "hourly",
                           synonyms |-> <<"wind gust", "gusts">> ] @@
    "pressure_msl" :> [ hourly |-> <<"pressure_msl">>,
                         daily |-> <<>>,
                         default |-> "hourly",
                         synonyms |-> <<"pressure", "sea level pressure">> ] @@
    "surface_pressure" :> [ hourly |-> <<"surface_pressure">>,
                             daily |-> <<>>,
                             default |-> "hourly",
                             synonyms |-> <<>> ] @@
    "visibility" :> [ hourly |-> <<"visibility">>,
                       daily |-> <<>>,
                       default |-> "hourly",
                       synonyms |-> <<"fog", "haze", "visibility">> ] @@
    "weather_code" :> [ hourly |-> <<"weather_code">>,
                         daily |-> <<>>,
                         default |-> "hourly",
                         synonyms |-> <<"weather code", "conditions">> ] @@
    "et0" :> [ hourly |-> <<>>,
                daily |-> <<"et0_fao_evapotranspiration">>,
                default |-> "daily",
                synonyms |-> <<"evapotranspiration">> ]

Configured == DOMAIN VARIABLE_CONFIG

(***************************************************************************)
(* tools/openmeteo.py: the mapper                                          *)
(***************************************************************************)
Cadences == {"hourly", "daily", "minutely_15", "current"}

\* VARIABLE_CONFIG.get(v, {}).get(key, [])
CfgGet(v, key) ==
    IF v \in Configured THEN VARIABLE_CONFIG[v][key] ELSE <<>>

\* params or [v]
OrSelf(params, v) == IF params /= <<>> THEN params ELSE <<v>>

_pick_granularity(requested, time_hint) ==
    IF requested \in Cadences THEN requested
    ELSE IF time_hint = "quarter_hour" THEN "minutely_15"
    ELSE IF time_hint = "clock" THEN "hourly"
    ELSE "daily"

\* mutant: the daily fallback keeps the requested cadence
MapVarsStep_KeepsDaily(st, v) ==
    IF st.api_key = "daily" THEN
        LET params == CfgGet(v, "daily") IN
        IF params = <<>>
        THEN LET hp == CfgGet(v, "hourly") IN
             [ api_key  |-> "daily",
               out      |-> st.out \o OrSelf(hp, v),
               warnings |-> IF hp /= <<>>
                            THEN Append(st.warnings, [kind |-> "no_daily", var |-> v])
                            ELSE st.warnings ]
        ELSE [st EXCEPT !.out = st.out \o params]
    ELSE IF st.api_key = "hourly" THEN
        [st EXCEPT !.out = st.out \o OrSelf(CfgGet(v, "hourly"), v)]
    ELSE
        [st EXCEPT !.out = st.out \o OrSelf(CfgGet(v, "hourly"), v)]

\* one pass of _map_vars' loop over variable v, from the loop state
\* st = [api_key, out, warnings]
MapVarsStep(st, v) ==
    IF st.api_key = "daily" THEN
        LET params == CfgGet(v, "daily") IN
        IF params = <<>>
        THEN LET hp == CfgGet(v, "hourly") IN
             [ api_key  |-> "hourly",
               out      |-> st.out \o OrSelf(hp, v),
               warnings |-> IF hp /= <<>>
                            THEN Append(st.warnings, [kind |-> "no_daily", var |-> v])
                            ELSE st.warnings ]
        ELSE [st EXCEPT !.out = st.out \o params]
    ELSE IF st.api_key = "hourly" THEN
        LET params == CfgGet(v, "hourly") IN
        IF params = <<>> /\ CfgGet(v, "daily") /= <<>>
        THEN [ api_key  |-> "daily",
               out      |-> st.out \o CfgGet(v, "daily"),
               warnings |-> Append(st.warnings, [kind |-> "no_hourly", var |-> v]) ]
        ELSE [st EXCEPT !.out = st.out \o OrSelf(params, v)]
    ELSE
        LET params == IF CfgGet(v, "hourly") /= <<>> THEN CfgGet(v, "hourly")
                      ELSE CfgGet(v, "daily")
        IN  [st EXCEPT !.out = st.out \o OrSelf(params, v)]

RECURSIVE MapVarsLoop(_, _, _)
MapVarsLoop(st, canonical, i) ==
    IF i > Len(canonical) THEN st
    ELSE MapVarsLoop(MapVarsStep(st, canonical[i]), canonical, i + 1)

\* deduplicate while preserving order
RECURSIVE Dedup(_, _, _)
Dedup(out, i, acc) ==
    IF i > Len(out) THEN acc
    ELSE Dedup(out, i + 1,
               IF \E j \in 1..Len(acc) : acc[j] = out[i] THEN acc
               ELSE Append(acc, out[i]))

\* <<api_key, field names, warnings>>
_map_vars(canonical, granularity) ==
    LET api0 == IF granularity \in Cadences THEN granularity ELSE "daily"
        st   == MapVarsLoop([api_key |-> api0, out |-> <<>>, warnings |-> <<>>],
                            canonical, 1)
        deduped == Dedup(st.out, 1, <<>>)
    IN  IF deduped = <<>>
        THEN << "hourly", <<"temperature_2m">>,
                Append(st.warnings, [kind |-> "none_recognized", var |-> ""]) >>
        ELSE << st.api_key, deduped, st.warnings >>

\* an identifier that is no key of VARIABLE_CONFIG
UnknownVar == "soil_moisture"

\* identifiers a caller may pass to the mapper
VarIds == Configured \cup {UnknownVar}

\* granularity arguments
GranArgs == Cadences \cup {"auto"}

\* a batch holds at most MaxBatch identifiers
MaxBatch == 2

RECURSIVE SeqsUpTo(_, _)
SeqsUpTo(S, n) ==
    IF n = 0 THEN { <<>> }
    ELSE LET shorter == SeqsUpTo(S, n - 1)
         IN  shorter \cup { Append(s, x) : s \in {y \in shorter : Len(y) = n - 1}, x \in S }

Batches == SeqsUpTo(VarIds, MaxBatch)

(***************************************************************************)
(* str and re, as tools/variables.py uses them. A text is a string; its    *)
(* characters are its one-character substrings.                            *)
(***************************************************************************)
CharAt(t, i) == SubSeq(t, i, i)

CharsOf(t) == { CharAt(t, i) : i \in 1..Len(t) }

UpperCase == "ABCDEFGHIJKLMNOPQRSTUVWXYZ"

LowerCase == "abcdefghijklmnopqrstuvwxyz"

DigitChars == "0123456789"

\* \w
WordChars == CharsOf(UpperCase) \cup CharsOf(LowerCase) \cup CharsOf(DigitChars) \cup {"_"}

\* \s
SpaceChars == {" ", "\t", "\n", "\r", "\f"}

\* str.lower()
RECURSIVE LowerFrom(_, _)
LowerFrom(t, i) ==
    IF i > Len(t) THEN ""
    ELSE LET c == CharAt(t, i)
             lc == IF c \in CharsOf(UpperCase)
                   THEN CharAt(LowerCase, CHOOSE k \in 1..Len(UpperCase) : CharAt(UpperCase, k) = c)
                   ELSE c
         IN  lc \o LowerFrom(t, i + 1)

Lower(t) == LowerFrom(t, 1)

\* w occurs in t at position i
At(t, i, w) == i >= 1 /\ i + Len(w) - 1 <= Len(t) /\ SubSeq(t, i, i + Len(w) - 1) = w

\* w in t
Contains(t, w) == \E i \in 1..(Len(t) + 1) : At(t, i, w)

\* any(w in t for w in ws)
ContainsAny(t, ws) == \E k \in 1..Len(ws) : Contains(t, ws[k])

IsWordChar(t, i) == i >= 1 /\ i <= Len(t) /\ CharAt(t, i) \in WordChars

\* \b between the characters i-1 and i
WordBoundary(t, i) == IsWordChar(t, i - 1) /= IsWordChar(t, i)

\* \d{n} at position i
DigitsAt(t, i, n) ==
    \A j \in i..(i + n - 1) : j <= Len(t) /\ CharAt(t, j) \in CharsOf(DigitChars)

\* n characters of \s at position i
SpacesAt(t, i, n) ==
    \A j \in i..(i + n - 1) : j <= Len(t) /\ CharAt(t, j) \in SpaceChars

\* re.search(r"\b(w1|w2|...)\b", t)
SearchWords(t, ws) ==
    \E i \in 1..Len(t) :
      /\ WordBoundary(t, i)
      /\ \E w \in ws : At(t, i, w) /\ WordBoundary(t, i + Len(w))

\* re.search(r"\b(now|right now|currently)\b", t)
SearchNow(t) == SearchWords(t, {"now", "right now", "currently"})

\* \d{1,2}(:\d{2})?\s*(am|pm) then \b, at position i
ClockAmPmAt(t, i) ==
    \E nd \in 1..2 :
      /\ DigitsAt(t, i, nd)
      /\ \E c \in {0, 3} :
           /\ (c = 3) => (At(t, i + nd, ":") /\ DigitsAt(t, i + nd + 1, 2))
           /\ \E sp \in 0..Len(t) :
                /\ SpacesAt(t, i + nd + c, sp)
                /\ \E m \in {"am", "pm"} :
                     /\ At(t, i + nd + c + sp, m)
                     /\ WordBoundary(t, i + nd + c + sp + Len(m))

\* \d{1,2}:\d{2} then \b, at position i
ClockHmAt(t, i) ==
    \E nd \in 1..2 :
      /\ DigitsAt(t, i, nd)
      /\ At(t, i + nd, ":")
      /\ DigitsAt(t, i + nd + 1, 2)
      /\ WordBoundary(t, i + nd + 3)

\* re.search(r"\b(\d{1,2}(:\d{2})?\s*(am|pm))\b|\b(\d{1,2}:\d{2})\b|\bnoon\b|\bmidnight\b", t)
SearchClock(t) ==
    \/ \E i \in 1..Len(t) : WordBoundary(t, i) /\ (ClockAmPmAt(t, i) \/ ClockHmAt(t, i))
    \/ SearchWords(t, {"noon", "midnight"})

\* re.search(r"\b(today|tomorrow|this (week|weekend)|next)\b", t)
SearchShortHorizon(t) ==
    SearchWords(t, {"today", "tomorrow", "this week", "this weekend", "next"})

\* re.search(r"\b(last|past)\s+(\d{1,3})\s+day", t)
SearchLastPastDays(t) ==
    \E i \in 1..Len(t) :
      /\ WordBoundary(t, i)
      /\ \E w \in {"last", "past"} :
           /\ At(t, i, w)
           /\ \E s1 \in 1..Len(t) :
                /\ SpacesAt(t, i + Len(w), s1)
                /\ \E nd \in 1..3 :
                     /\ DigitsAt(t, i + Len(w) + s1, nd)
                     /\ \E s2 \in 1..Len(t) :
                          /\ SpacesAt(t, i + Len(w) + s1 + nd, s2)
                          /\ At(t, i + Len(w) + s1 + nd + s2, "day")

\* re.findall(r"[a-z]+", t): cur is the run of letters being read
RECURSIVE FindLetters(_, _, _, _)
FindLetters(t, i, cur, acc) ==
    IF i > Len(t) THEN (IF cur = "" THEN acc ELSE Append(acc, cur))
    ELSE IF CharAt(t, i) \in CharsOf(LowerCase)
         THEN FindLetters(t, i + 1, cur \o CharAt(t, i), acc)
         ELSE FindLetters(t, i + 1, "", IF cur = "" THEN acc ELSE Append(acc, cur))

FindAllLetters(t) == FindLetters(t, 1, "", <<>>)

\* x in l
InList(x, l) == \E i \in 1..Len(l) : l[i] = x

(***************************************************************************)
(* tools/variables.py: the variable resolver                               *)
(***************************************************************************)
\* the keys of VARIABLE_CONFIG in the order VARIABLE_CONFIG.items() gives
ConfigKeys ==
    << "precipitation", "rain", "snowfall", "precipitation_hours",
       "temperature_2m", "apparent_temperature", "relative_humidity_2m",
       "dew_point_2m", "cloud_cover", "uv_index", "sunrise_sunset",
       "shortwave_radiation", "wind_speed_10m", "wind_direction_10m",
       "wind_gusts_10m", "pressure_msl", "surface_pressure", "visibility",
       "weather_code", "et0" >>

\* (prompt, endpoint, frequency)
FEW_SHOT_DECISIONS ==
    << <<"Will it rain in Bloomington tomorrow?", "/v1/forecast", "daily">>,
       <<"Did it rain in Seattle yesterday?", "/v1/archive", "daily">>,
       <<"Is it raining in San Jose right now?", "/v1/forecast", "hourly">>,
       <<"What was the humidity in Sunnyvale for the last 7 days?", "/v1/archive", "hourly">>,
       <<"Why is San Francisco cooler than San Jose?", "/v1/forecast", "hourly">> >>

\* "precipitation" in picked_vars or "rain" in picked_vars or "snowfall" in picked_vars
PrecipFamily(picked_vars) ==
    InList("precipitation", picked_vars) \/ InList("rain", picked_vars) \/
    InList("snowfall", picked_vars)

\* mutant: with "last/past N day" the precipitation family is asked first
_detect_granularity_PrecipFirst(q, picked_vars) ==
    IF SearchNow(q) THEN "hourly"
    ELSE IF SearchClock(q) THEN "hourly"
    ELSE IF ContainsAny(q, <<"why", "cooler", "warmer", "hotter", "colder">>)
            /\ InList("temperature_2m", picked_vars) THEN "hourly"
    ELSE IF PrecipFamily(picked_vars) /\ SearchShortHorizon(q) THEN "daily"
    ELSE IF SearchLastPastDays(q) /\ PrecipFamily(picked_vars) THEN "daily"
    ELSE IF SearchLastPastDays(q) /\ InList("relative_humidity_2m", picked_vars) THEN "hourly"
    ELSE LET defaults == { VARIABLE_CONFIG[v].default :
                             v \in { x \in Configured : InList(x, picked_vars) } }
         IN  IF Cardinality(defaults) = 1 THEN CHOOSE d \in defaults : TRUE
             ELSE IF "hourly" \in defaults THEN "hourly"
             ELSE "daily"

_detect_granularity(q, picked_vars) ==
    IF SearchNow(q) THEN "hourly"
    ELSE IF SearchClock(q) THEN "hourly"
    ELSE IF ContainsAny(q, <<"why", "cooler", "warmer", "hotter", "colder">>)
            /\ InList("temperature_2m", picked_vars) THEN "hourly"
    ELSE IF PrecipFamily(picked_vars) /\ SearchShortHorizon(q) THEN "daily"
    ELSE IF SearchLastPastDays(q) /\ InList("relative_humidity_2m", picked_vars) THEN "hourly"
    ELSE IF SearchLastPastDays(q) /\ PrecipFamily(picked_vars) THEN "daily"
    ELSE LET defaults == { VARIABLE_CONFIG[v].default :
                             v \in { x \in Configured : InList(x, picked_vars) } }
         IN  IF Cardinality(defaults) = 1 THEN CHOOSE d \in defaults : TRUE
             ELSE IF "hourly" \in defaults THEN "hourly"
             ELSE "daily"

\* 1) synonym match: the picks of the loop over VARIABLE_CONFIG.items()
SynonymPicks(q) ==
    SelectSeq(ConfigKeys,
              LAMBDA canon : ContainsAny(q, VARIABLE_CONFIG[canon].synonyms) \/
                             Contains(q, canon))

\* heuristic fallbacks when nothing obvious is found
HeuristicPicks(q) ==
    IF ContainsAny(q, <<"rain", "precip">>) THEN <<"precipitation">>
    ELSE IF Contains(q, "humidity") THEN <<"relative_humidity_2m">>
    ELSE IF ContainsAny(q, <<"uv", "sunburn">>) THEN <<"uv_index">>
    ELSE IF Contains(q, "wind") THEN <<"wind_speed_10m", "wind_gusts_10m">>
    ELSE <<"temperature_2m">>

\* 3) time hints for sub-hour selection
TimeHint(q) ==
    IF Contains(q, "every 15 minutes") \/ Contains(q, "15 min") \/ Contains(q, "15-minute")
    THEN "quarter_hour"
    ELSE IF SearchClock(q) THEN "clock"
    ELSE "none"

\* 4) stat intent
StatIntent(q) ==
    IF ContainsAny(q, <<"sum", "total", "accumulated">>) THEN "sum"
    ELSE IF ContainsAny(q, <<"max", "highest", "peak">>) THEN "max"
    ELSE IF ContainsAny(q, <<"min", "lowest">>) THEN "min"
    ELSE IF ContainsAny(q, <<"avg", "mean", "average">>) THEN "mean"
    ELSE "auto"

\* 5) the first few-shot example all of whose words occur in q: its index
\* in FEW_SHOT_DECISIONS, 0 when there is none
FewShotMatch(q) ==
    LET hits == { k \in 1..Len(FEW_SHOT_DECISIONS) :
                    LET toks == FindAllLetters(Lower(FEW_SHOT_DECISIONS[k][1]))
                    IN  \A j \in 1..Len(toks) : Contains(q, toks[j]) }
    IN  IF hits = {} THEN 0 ELSE CHOOSE k \in hits : \A o \in hits : k <= o

pick_variables(user_query) ==
    LET q      == Lower(user_query)
        syn    == SynonymPicks(q)
        picked == IF syn = <<>> THEN HeuristicPicks(q) ELSE syn
        detected == _detect_granularity(q, picked)
        hit    == FewShotMatch(q)
        granularity == IF hit /= 0 /\ detected = "" THEN FEW_SHOT_DECISIONS[hit][3]
                       ELSE detected
    IN  [ variables     |-> Dedup(picked, 1, <<>>),
          granularity   |-> IF granularity = "" THEN "auto" ELSE granularity,
          time_hint     |-> TimeHint(q),
          stat_intent   |-> StatIntent(q),
          endpoint_hint |-> IF hit /= 0 THEN FEW_SHOT_DECISIONS[hit][2] ELSE "",
          few_shot_examples |-> FEW_SHOT_DECISIONS ]

\* query texts: an opener, a subject and a closer, and the few-shot prompts
Openers == {"", "why is ", "highest "}

Subjects ==
    { "the weather", "it nice outside", "temperature", "temp", "rain",
      "rainfall", "humidity", "uv", "wind", "wind gusts", "dew point",
      "snow", "sunset", "soil moisture", "precipitation and humidity",
      "pressure_msl", "uv and wind" }

Closers ==
    { "", " tomorrow", " right now", " at 5 pm", " at 17:30",
      " for the last 7 days", " for the past 30 days", " every 15 minutes",
      " on average" }

QueryTexts ==
    { o \o s \o c : o \in Openers, s \in Subjects, c \in Closers } \cup
    { FEW_SHOT_DECISIONS[k][1] : k \in 1..Len(FEW_SHOT_DECISIONS) }

(***************************************************************************)
(* tools/openmeteo.py: the router and merger                               *)
(***************************************************************************)
_FORECAST == "https://api.open-meteo.com/v1/forecast"

_ARCHIVE == "https://archive-api.open-meteo.com/v1/archive"

_FORECAST_MAX_DAYS == 16

\* a coordinate argument: a number, or a value float() rejects
Num(v) == [numeric |-> TRUE, v |-> v]

NotANumber == [numeric |-> FALSE, v |-> 0]

\* mutant: no upper limit
_safe_float_NoUpper(x, lo, hi) ==
    IF ~x.numeric THEN FALSE
    ELSE lo <= x.v

_safe_float(x, lo, hi) ==
    IF ~x.numeric THEN FALSE
    ELSE lo <= x.v /\ x.v <= hi

_clamp_forecast_range(s, e, today) ==
    IF e > today + _FORECAST_MAX_DAYS
    THEN <<s, today + _FORECAST_MAX_DAYS>>
    ELSE <<s, e>>

_auto_time_params(start_date, end_date) ==
    [start_date |-> start_date, end_date |-> end_date]

\* a dict: a function on its keys; {} is the function with no key
EmptyDict == <<>>

IsEmptyDict(d) == DOMAIN d = {}

\* d.get(k) or []
GetOrEmpty(d, k) == IF k \in DOMAIN d THEN d[k] ELSE <<>>

\* u.update(v)
DictUpdate(u, v) ==
    [k \in DOMAIN u \cup DOMAIN v |-> IF k \in DOMAIN v THEN v[k] ELSE u[k]]

\* mutant: the second series comes first
_merge_series_SecondFirst(a, b) ==
    IF IsEmptyDict(a) THEN b
    ELSE IF IsEmptyDict(b) THEN a
    ELSE [k \in DOMAIN a \cup DOMAIN b \cup {"time"} |->
            GetOrEmpty(b, k) \o GetOrEmpty(a, k)]

_merge_series(a, b) ==
    IF IsEmptyDict(a) THEN b
    ELSE IF IsEmptyDict(b) THEN a
    ELSE [k \in DOMAIN a \cup DOMAIN b \cup {"time"} |->
            GetOrEmpty(a, k) \o GetOrEmpty(b, k)]

\* if not time_mode: infer it from the window
InferTimeMode(time_mode, s, e, today) ==
    IF time_mode /= "" THEN time_mode
    ELSE IF e < today THEN "hindcast"
    ELSE IF s > today THEN "forecast"
    ELSE "mixed"

\* mutant: the archive half runs through today
PastEnd_ThroughToday(e, today) == Min2(e, today)

\* the end of the archive half of a mixed route
PastEnd(e, today) == Min2(e, today - 1)

\* the start of the forecast half of a mixed route
FutStart(s, today) == Max2(today, s)

\* mutant: the range is cut at the horizon for both endpoints
SentRange_ClampsBoth(endpoint, s_date, e_date, today) ==
    _clamp_forecast_range(s_date, e_date, today)

\* the range _call sends to an endpoint for the range it is given
SentRange(endpoint, s_date, e_date, today) ==
    IF endpoint = _FORECAST THEN _clamp_forecast_range(s_date, e_date, today)
    ELSE <<s_date, e_date>>

\* the request parameters _call builds
CallParams(lat, lon, endpoint, s_date, e_date, today, api_key, var_list) ==
    LET r  == SentRange(endpoint, s_date, e_date, today)
        tp == _auto_time_params(IsoFormat(r[1]), IsoFormat(r[2]))
    IN  [ latitude   |-> lat.v,
          longitude  |-> lon.v,
          timezone   |-> "auto",
          start_date |-> tp.start_date,
          end_date   |-> tp.end_date,
          cadence    |-> api_key,
          fields     |-> var_list ]

(***************************************************************************)
(* The provider behind requests.get, one sample per day of the range:      *)
(* it may fail (timeout, error status: _call raises), answer the series    *)
(* of the requested range, answer it with a gap or in other units, or      *)
(* answer a JSON without the cadence's block.                              *)
(* A range whose end precedes its start is refused.                        *)
(***************************************************************************)
TimeAxis(first, last) == [i \in 1..(last - first + 1) |-> first + (i - 1)]

FullBlock(params) ==
    LET axis == TimeAxis(FromIsoFormat(params.start_date), FromIsoFormat(params.end_date))
    IN  [k \in {"time"} \cup { params.fields[i] : i \in 1..Len(params.fields) } |-> axis]

FullUnits(params) ==
    [k \in {"time"} \cup { params.fields[i] : i \in 1..Len(params.fields) } |->
        IF k = "time" THEN "iso8601" ELSE "unit"]

\* a series with a gap: the first sample is missing from every array, and
\* the field requested last is not answered at all
SparseKeys(params) ==
    {"time"} \cup { params.fields[i] : i \in 1..(Len(params.fields) - 1) }

SparseBlock(params) ==
    LET full == FullBlock(params)
    IN  [k \in SparseKeys(params) |-> SubSeq(full[k], 2, Len(full[k]))]

SparseUnits(params) ==
    [k \in SparseKeys(params) |-> FullUnits(params)[k]]

\* the same fields declared in another unit
OtherUnits(params) ==
    [k \in DOMAIN FullUnits(params) |-> IF k = "time" THEN "iso8601" ELSE "other unit"]

ProviderReplies(endpoint, params) ==
    { [kind |-> "raise", block |-> EmptyDict, units |-> EmptyDict] } \cup
    ( IF FromIsoFormat(params.start_date) <= FromIsoFormat(params.end_date)
      THEN { [kind |-> "ok", block |-> FullBlock(params), units |-> FullUnits(params)],
             [kind |-> "ok", block |-> SparseBlock(params), units |-> SparseUnits(params)],
             [kind |-> "ok", block |-> FullBlock(params), units |-> OtherUnits(params)],
             [kind |-> "ok", block |-> EmptyDict, units |-> EmptyDict] }
      ELSE {} )

\* "+".join(sources)
JoinSources(sources) ==
    IF Len(sources) = 0 THEN ""
    ELSE IF Len(sources) = 1 THEN sources[1]
    ELSE sources[1] \o "+" \o sources[2]

\* the success payload
Response(args, s, e, time_mode, api_key, var_list, var_warnings, sources, units, block) ==
    LET base ==
          [ source        |-> JoinSources(sources),
            endpoint_mode |-> time_mode,
            granularity   |-> api_key,
            endpoint_urls |-> [ forecast |-> IF \E i \in 1..Len(sources) : sources[i] = "forecast"
                                             THEN _FORECAST ELSE "",
                                archive  |-> IF \E i \in 1..Len(sources) : sources[i] = "archive"
                                             THEN _ARCHIVE ELSE "" ],
            request       |-> [ latitude |-> args.lat.v, longitude |-> args.lon.v,
                                start_date |-> IsoFormat(s), end_date |-> IsoFormat(e),
                                cadence |-> api_key, fields |-> var_list,
                                timezone |-> "auto" ],
            units         |-> units,
            data          |-> [ block |-> block, units |-> units ] ]
    IN  IF var_warnings /= <<>>
        THEN [k \in DOMAIN base \cup {"warnings"} |->
                IF k = "warnings" THEN var_warnings ELSE base[k]]
        ELSE base

(***************************************************************************)
(* State                                                                   *)
(***************************************************************************)
VARIABLES
    wpc,      \* infer_time_window: "off" | "call" | "done"
    wquery,   \* the query's cues
    wlat,     \* the lat argument
    wtoday,   \* datetime.utcnow().date() of the resolution
    wparsed,  \* dateparser's answers to the calls the resolution made
    wout,     \* the returned dict
    mpc,      \* _map_vars: "off" | "call" | "done"
    mcanonical, \* the canonical argument
    mgran,    \* the granularity argument
    mout,     \* the returned tuple
    fpc,      \* fetch_openmeteo: "off" | "call" | "route" | "mixed_forecast" |
              \*   "respond" | "returned" | "raised"
    fargs,    \* the arguments
    ftoday,   \* date.today() of the call
    fplan,    \* [s, e, time_mode, api_key, var_list, var_warnings] once decided
    fsources, \* sources
    fcalls,   \* the calls issued through _call so far, in order
    funits,   \* units
    fblock,   \* block
    fresp,    \* the returned dict
    ppc,      \* pick_variables: "off" | "call" | "done"
    pquery,   \* the user_query argument
    pout      \* the returned dict

wvars == <<wpc, wquery, wlat, wtoday, wparsed, wout>>

mvars == <<mpc, mcanonical, mgran, mout>>

fvars == <<fpc, fargs, ftoday, fplan, fsources, fcalls, funits, fblock, fresp>>

pvars == <<ppc, pquery, pout>>

vars == <<wvars, mvars, fvars, pvars>>

WindowOff ==
    /\ wpc = "off" /\ wquery = EmptyQuery /\ wlat = Nothing
    /\ wtoday = 0 /\ wparsed = <<>> /\ wout = <<>>

MapOff ==
    /\ mpc = "off" /\ mcanonical = <<>> /\ mgran = "" /\ mout = <<>>

FetchOff ==
    /\ fpc = "off" /\ fargs = <<>> /\ ftoday = 0 /\ fplan = <<>> /\ fsources = <<>>
    /\ fcalls = <<>> /\ funits = EmptyDict /\ fblock = EmptyDict /\ fresp = <<>>

PickOff ==
    /\ ppc = "off" /\ pquery = "" /\ pout = <<>>

(***************************************************************************)
(* infer_time_window as a system: one call on one query                    *)
(***************************************************************************)
WindowInit ==
    /\ wpc = "call"
    /\ wquery \in Queries
    /\ wlat \in LatArgs
    /\ wtoday \in Todays
    /\ wparsed = <<>>
    /\ wout = <<>>
    /\ MapOff
    /\ FetchOff
    /\ PickOff

InferTimeWindow ==
    /\ wpc = "call"
    /\ \E a \in ParserAnswers(wquery, wtoday) :
         /\ wout' = infer_time_window(wquery, wlat, wtoday, a[1], a[2], a[3])
         /\ wparsed' = a
    /\ wpc' = "done"
    /\ UNCHANGED <<wquery, wlat, wtoday>>
    /\ UNCHANGED <<mvars, fvars, pvars>>

WindowNext == InferTimeWindow

SpecWindow == WindowInit /\ [][WindowNext]_vars

(***************************************************************************)
(* _map_vars as a system: one call on one batch                            *)
(***************************************************************************)
MapInit ==
    /\ mpc = "call"
    /\ mcanonical \in Batches
    /\ mgran \in GranArgs
    /\ mout = <<>>
    /\ WindowOff
    /\ FetchOff
    /\ PickOff

MapVars ==
    /\ mpc = "call"
    /\ mout' = _map_vars(mcanonical, mgran)
    /\ mpc' = "done"
    /\ UNCHANGED <<mcanonical, mgran>>
    /\ UNCHANGED <<wvars, fvars, pvars>>

MapNext == MapVars

SpecMap == MapInit /\ [][MapNext]_vars


(***************************************************************************)
(* fetch_openmeteo as a system: one call, its requests to the provider     *)
(***************************************************************************)
\* the window starts FetchBack days before today at the earliest,
\* FetchAhead days after it at the latest, and spans at most FetchSpan days
FetchBack == 31

FetchAhead == 18

FetchSpan == 32

FetchTodays == { Date(2024, 7, 10), Date(2024, 12, 20) }

\* (lat, lon) arguments
CoordArgs ==
    { <<Num(40), Num(-86)>>, <<Num(-90), Num(180)>>, <<Num(91), Num(0)>>,
      <<Num(0), Num(-181)>>, <<NotANumber, Num(0)>> }

\* (variables, granularity, time_hint) arguments
VarArgs ==
    { << <<"temperature_2m">>, "auto", "none" >>,
      << <<"dew_point_2m">>, "daily", "none" >> }

TimeModeArgs == {"", "hindcast", "forecast", "mixed"}

\* the calls with coordinates from coords on the windows that start
\* k days after today, k in offsets, and span n days, n in spans
FetchArgsOf(today, coords, offsets, spans) ==
    { [ lat |-> c[1], lon |-> c[2],
        start_date |-> IsoFormat(today + k),
        end_date   |-> IsoFormat(today + k + (n - 1)),
        variables  |-> v[1], granularity |-> v[2], time_hint |-> v[3],
        time_mode  |-> m ] :
      c \in coords, k \in offsets, n \in spans,
      v \in VarArgs, m \in TimeModeArgs }

\* every window at one place; at every (lat, lon) argument, windows before,
\* around and after today
FetchArgs(today) ==
    FetchArgsOf(today, { <<Num(40), Num(-86)>> },
                (0 - FetchBack)..FetchAhead, 1..FetchSpan) \cup
    FetchArgsOf(today, CoordArgs, {-20, -3, 0, 2, 17}, {1, 6, 20})

FetchInit ==
    /\ fpc = "call"
    /\ ftoday \in FetchTodays
    /\ fargs \in FetchArgs(ftoday)
    /\ fplan = <<>>
    /\ fsources = <<>>
    /\ fcalls = <<>>
    /\ funits = EmptyDict
    /\ fblock = EmptyDict
    /\ fresp = <<>>
    /\ WindowOff
    /\ MapOff
    /\ PickOff

CoordsOk == _safe_float(fargs.lat, -90, 90) /\ _safe_float(fargs.lon, -180, 180)

\* "Guard coords": return {"error": "Invalid coordinates"}
FetchRejects ==
    /\ fpc = "call"
    /\ ~CoordsOk
    /\ fresp' = [error |-> "Invalid coordinates"]
    /\ fpc' = "returned"
    /\ UNCHANGED <<fargs, ftoday, fplan, fsources, fcalls, funits, fblock>>
    /\ UNCHANGED <<wvars, mvars, pvars>>

\* cadence, field names, dates and time_mode are decided
FetchPlans ==
    /\ fpc = "call"
    /\ CoordsOk
    /\ LET picked == _pick_granularity(fargs.granularity, fargs.time_hint)
           mapped == _map_vars(fargs.variables, picked)
           s == FromIsoFormat(fargs.start_date)
           e == FromIsoFormat(fargs.end_date)
       IN  fplan' = [ s |-> s, e |-> e,
                      time_mode    |-> InferTimeMode(fargs.time_mode, s, e, ftoday),
                      api_key      |-> mapped[1],
                      var_list     |-> mapped[2],
                      var_warnings |-> mapped[3] ]
    /\ fpc' = "route"
    /\ UNCHANGED <<fargs, ftoday, fsources, fcalls, funits, fblock, fresp>>
    /\ UNCHANGED <<wvars, mvars, pvars>>

\* _call(endpoint, s_date, e_date) and what the caller does with its result;
\* when requests.get or raise_for_status raises, so does fetch_openmeteo
Call(endpoint, s_date, e_date, merge, nextpc) ==
    LET params == CallParams(fargs.lat, fargs.lon, endpoint, s_date, e_date, ftoday,
                             fplan.api_key, fplan.var_list)
    IN  \E r \in ProviderReplies(endpoint, params) :
          /\ fcalls' = Append(fcalls, [ endpoint |-> endpoint,
                                        s_date |-> s_date, e_date |-> e_date,
                                        params |-> params,
                                        reply |-> r ])
          /\ IF r.kind = "raise"
             THEN /\ fpc' = "raised"
                  /\ UNCHANGED <<funits, fblock>>
             ELSE /\ fpc' = nextpc
                  /\ funits' = DictUpdate(funits, r.units)
                  /\ fblock' = IF merge THEN _merge_series(fblock, r.block) ELSE r.block

FetchHindcast ==
    /\ fpc = "route"
    /\ fplan.time_mode = "hindcast"
    /\ fsources' = <<"archive">>
    /\ Call(_ARCHIVE, fplan.s, fplan.e, FALSE, "respond")
    /\ UNCHANGED <<fargs, ftoday, fplan, fresp>>
    /\ UNCHANGED <<wvars, mvars, pvars>>

FetchForecast ==
    /\ fpc = "route"
    /\ fplan.time_mode = "forecast"
    /\ fsources' = <<"forecast">>
    /\ Call(_FORECAST, fplan.s, fplan.e, FALSE, "respond")
    /\ UNCHANGED <<fargs, ftoday, fplan, fresp>>
    /\ UNCHANGED <<wvars, mvars, pvars>>

\* else: mixed; the archive half
FetchMixedArchive ==
    /\ fpc = "route"
    /\ fplan.time_mode \notin {"hindcast", "forecast"}
    /\ fsources' = <<"archive", "forecast">>
    /\ IF fplan.s < ftoday
       THEN Call(_ARCHIVE, fplan.s, PastEnd(fplan.e, ftoday), TRUE, "mixed_forecast")
       ELSE /\ fpc' = "mixed_forecast"
            /\ UNCHANGED <<fcalls, funits, fblock>>
    /\ UNCHANGED <<fargs, ftoday, fplan, fresp>>
    /\ UNCHANGED <<wvars, mvars, pvars>>

\* the forecast half
FetchMixedForecast ==
    /\ fpc = "mixed_forecast"
    /\ IF fplan.e >= ftoday
       THEN Call(_FORECAST, FutStart(fplan.s, ftoday), fplan.e, TRUE, "respond")
       ELSE /\ fpc' = "respond"
            /\ UNCHANGED <<fcalls, funits, fblock>>
    /\ UNCHANGED <<fargs, ftoday, fplan, fsources, fresp>>
    /\ UNCHANGED <<wvars, mvars, pvars>>

\* "Success payload"
FetchResponds ==
    /\ fpc = "respond"
    /\ fresp' = Response(fargs, fplan.s, fplan.e, fplan.time_mode, fplan.api_key,
                         fplan.var_list, fplan.var_warnings, fsources, funits, fblock)
    /\ fpc' = "returned"
    /\ UNCHANGED <<fargs, ftoday, fplan, fsources, fcalls, funits, fblock>>
    /\ UNCHANGED <<wvars, mvars, pvars>>

FetchNext ==
    \/ FetchRejects
    \/ FetchPlans
    \/ FetchHindcast
    \/ FetchForecast
    \/ FetchMixedArchive
    \/ FetchMixedForecast
    \/ FetchResponds

SpecFetch == FetchInit /\ [][FetchNext]_vars

(***************************************************************************)
(* pick_variables as a system: one call on one query text                  *)
(***************************************************************************)
PickInit ==
    /\ ppc = "call"
    /\ pquery \in QueryTexts
    /\ pout = <<>>
    /\ WindowOff
    /\ MapOff
    /\ FetchOff

PickVariables ==
    /\ ppc = "call"
    /\ pout' = pick_variables(pquery)
    /\ ppc' = "done"
    /\ UNCHANGED pquery
    /\ UNCHANGED <<wvars, mvars, fvars>>

PickNext == PickVariables

SpecPick == PickInit /\ [][PickNext]_vars

(***************************************************************************)
(* Claims about infer_time_window (SpecWindow)                             *)
(***************************************************************************)
WindowDone == wpc = "done"

OutStart == FromIsoFormat(wout.start_date)

OutEnd == FromIsoFormat(wout.end_date)

\* the only temporal cue of the query is k (a clock-time hint may be there)
OnlyCue(k) == Has(wquery, k) /\ \A x \in Kinds \ {k, "clock"} : ~Has(wquery, x)

\* C1: every window infer_time_window returns has start_date <= end_date
\* and spans at most 31 days, whatever the cues, the latitude and today.
C1_WindowBounded ==
    WindowDone => /\ OutStart <= OutEnd
                  /\ (OutEnd - OutStart) + 1 <= 31

\* a resolution whose rule gave a span over 31 days, cut back to 31
C1_Witness ==
    /\ WindowDone
    /\ MatchedRule(wquery) = "monsoon"
    /\ wout.explanation.note /= <<>>
    /\ (OutEnd - OutStart) + 1 = 31

\* C3: time_mode is hindcast exactly when end_date < today, forecast
\* exactly when start_date > today, mixed exactly when
\* start_date <= today <= end_date; one and only one of the three holds.
C3_ModeClassified ==
    WindowDone =>
      /\ wout.time_mode \in {"hindcast", "forecast", "mixed"}
      /\ (wout.time_mode = "hindcast") <=> (OutEnd < wtoday)
      /\ (wout.time_mode = "forecast") <=> (OutStart > wtoday)
      /\ (wout.time_mode = "mixed") <=> (OutStart <= wtoday /\ wtoday <= OutEnd)

\* a window that starts on today itself: mixed, not forecast
C3_Witness ==
    /\ WindowDone
    /\ OutStart = wtoday /\ OutEnd > wtoday
    /\ wout.time_mode = "mixed"

\* C7: "last weekend" resolves, on every weekday of today, to the latest
\* Saturday-Sunday pair that ends strictly before today.
C7_LastWeekendStrictlyPast ==
    (WindowDone /\ MatchedRule(wquery) = "last_weekend") =>
      /\ Weekday(OutStart) = 5
      /\ OutEnd = OutStart + 1
      /\ OutEnd < wtoday
      /\ OutEnd + 7 >= wtoday

\* C8: "past N day(s)" and "last N day(s)", 1 <= N <= 31, with no range,
\* yesterday or tomorrow cue, both resolve to today - (N-1) .. today.
C8_PastOrLastNDays ==
    \A k \in {"past", "last"} :
      ( /\ WindowDone
        /\ Has(wquery, k)
        /\ ~Has(wquery, CHOOSE o \in {"past", "last"} : o /= k)
        /\ ~Has(wquery, "range") /\ ~Has(wquery, "yesterday") /\ ~Has(wquery, "tomorrow")
        /\ wquery[k][1] \in 1..31 )
      => /\ OutStart = wtoday - (wquery[k][1] - 1)
         /\ OutEnd = wtoday

\* C9 as stated: a "past N days" query whose window ends on today
\* (N = 3 on 2024-07-10) is daily and hindcast.
C9_PastNHindcast ==
    ( /\ WindowDone
      /\ OnlyCue("past") /\ ~Has(wquery, "clock")
      /\ wquery["past"][1] \in 1..31 )
    => /\ wout.granularity = "daily"
       /\ wout.time_mode = "hindcast"

\* C9 as amended: a "past N days" query whose window ends on today
\* (1 <= N <= 31) is daily and mixed; "past 3 days" on 2024-07-10 is
\* 2024-07-08 .. 2024-07-10, daily, mixed.
C9_PastNMixed ==
    ( /\ WindowDone
      /\ OnlyCue("past") /\ ~Has(wquery, "clock")
      /\ wquery["past"][1] \in 1..31 )
    => /\ wout.granularity = "daily"
       /\ wout.time_mode = "mixed"
       /\ OutEnd = wtoday
       /\ (wquery["past"][1] = 3 /\ wtoday = Date(2024, 7, 10))
            => /\ wout.start_date = <<2024, 7, 8>>
               /\ wout.end_date = <<2024, 7, 10>>

\* Example 1 resolved
C9_Witness ==
    /\ WindowDone
    /\ OnlyCue("past") /\ ~Has(wquery, "clock")
    /\ wquery["past"] = <<3>>
    /\ IsoFormat(wtoday) = <<2024, 7, 10>>
    /\ wout.time_mode = "mixed"


\* the order in which the temporal rules are to be tried
RuleOrder ==
    << "range", "yesterday", "tomorrow", "past", "last_weekend",
       "this_weekend", "this_week", "next_week", "wom", "season", "monsoon" >>

\* the cues of q that some rule looks for
RuleCues(q) == { i \in 1..Len(RuleOrder) : Has(q, RuleOrder[i]) }

\* q with no cue but the one its earliest rule in RuleOrder looks for
EarliestCueAlone(q) ==
    IF RuleCues(q) = {} THEN EmptyQuery
    ELSE LET i == CHOOSE x \in RuleCues(q) : \A y \in RuleCues(q) : x <= y
         IN  [EmptyQuery EXCEPT ![RuleOrder[i]] = q[RuleOrder[i]]]

\* C18: the rules are tried in the order range, yesterday, tomorrow,
\* past N days, last weekend, this/coming weekend, this week, next week,
\* week-of-month, season, monsoon, whole-query parse; start_date and
\* end_date are those of the earliest matching rule alone, and later
\* matching rules have no effect on them.
C18_FirstMatchWins ==
    WindowDone =>
      LET alone == infer_time_window(EarliestCueAlone(wquery), wlat, wtoday,
                                     wparsed[1], wparsed[2], wparsed[3])
      IN  /\ wout.start_date = alone.start_date
          /\ wout.end_date = alone.end_date

\* "yesterday" and "tomorrow" in one query: yesterday's window
C18_Witness ==
    /\ WindowDone
    /\ Has(wquery, "yesterday") /\ Has(wquery, "tomorrow")
    /\ OutStart = wtoday - 1 /\ OutEnd = wtoday - 1

\* the window as the rule chain and the swap leave it, before clamping
PreClamp ==
    SwapWindow(RuleWindow(wquery, LatOrDefault(wlat), wtoday,
                          wparsed[1], wparsed[2], wparsed[3]))

\* C19: a span over 31 days keeps its start, ends on start + 30 days and
\* carries a truncation note; a span of 31 days or less is unchanged and
\* carries no note; "monsoon Y" is Y-06-01 .. Y-07-01 with a note at every
\* latitude.
C19_ClampMovesEndOnly ==
    WindowDone =>
      /\ OutStart = PreClamp[1]
      /\ IF (PreClamp[2] - PreClamp[1]) + 1 > 31
         THEN /\ OutEnd = OutStart + 30
              /\ wout.explanation.note /= <<>>
         ELSE /\ OutEnd = PreClamp[2]
              /\ wout.explanation.note = <<>>
      /\ MatchedRule(wquery) = "monsoon" =>
           /\ wout.start_date = <<wquery["monsoon"][1], 6, 1>>
           /\ wout.end_date = <<wquery["monsoon"][1], 7, 1>>
           /\ wout.explanation.note /= <<>>

\* Example 2 at a southern latitude
C19_Witness ==
    /\ WindowDone
    /\ OnlyCue("monsoon") /\ wquery["monsoon"] = <<2023>>
    /\ wlat = Some(-35)
    /\ PreClamp = <<Date(2023, 6, 1), Date(2023, 9, 30)>>
    /\ wout.start_date = <<2023, 6, 1>> /\ wout.end_date = <<2023, 7, 1>>
    /\ wout.explanation.note /= <<>>

\* the season half a year away
OppositeSeason(name) ==
    CASE name = "spring" -> "autumn"
      [] name = "summer" -> "winter"
      [] name \in {"autumn", "fall"} -> "spring"
      [] OTHER -> "summer"

\* the northern-hemisphere season of year label yr, as <<y, m, d>> pairs
NorthernSeason(name, yr) ==
    CASE name = "spring" -> << <<yr, 3, 1>>, <<yr, 5, 31>> >>
      [] name = "summer" -> << <<yr, 6, 1>>, <<yr, 8, 31>> >>
      [] name \in {"autumn", "fall"} -> << <<yr, 9, 1>>, <<yr, 11, 30>> >>
      [] OTHER -> << <<yr, 12, 1>>, <<yr + 1, 2, 28>> >>

\* months from 0001-01 to the month of <<y, m, d>>
MonthIndex(ymd) == ymd[1] * 12 + ymd[2]

\* C20: for a season-with-year query a negative latitude gives the
\* northern window of the opposite season for the same year label, which
\* starts exactly six months from the northern start of the named season;
\* latitude zero, a positive latitude and no latitude give the northern
\* window.  (The window returned is cut to 31 days.)
C20_SeasonInversion ==
    (WindowDone /\ MatchedRule(wquery) = "season") =>
      LET name  == wquery["season"][1]
          yr    == wquery["season"][2]
          south == wlat /= Nothing /\ Val(wlat) < 0
          north == NorthernSeason(IF south THEN OppositeSeason(name) ELSE name, yr)
          named == NorthernSeason(name, yr)
      IN  /\ wout.start_date = north[1]
          /\ OutEnd = Min2(FromIsoFormat(north[2]), OutStart + 30)
          /\ PreClamp = <<FromIsoFormat(north[1]), FromIsoFormat(north[2])>>
          /\ south =>
               /\ wout.start_date[3] = named[1][3]
               /\ MonthIndex(wout.start_date) - MonthIndex(named[1]) \in {-6, 6}

\* "summer 2024" at latitude -35: the window of northern winter 2024
C20_Witness ==
    /\ WindowDone
    /\ OnlyCue("season") /\ wquery["season"] = <<"summer", 2024>>
    /\ wlat = Some(-35)
    /\ wout.start_date = <<2024, 12, 1>>
    /\ PreClamp = <<Date(2024, 12, 1), Date(2025, 2, 28)>>

MapDone == mpc = "done"

EffectiveCadence == mout[1]

FieldNames == mout[2]

MapWarnings == mout[3]

SeqToSet(s) == { s[i] : i \in 1..Len(s) }

\* C4: for a non-empty batch of configured variables at requested cadence
\* daily or hourly, every returned field name is a field of some requested
\* variable at the returned effective cadence.
C4_OneCadence ==
    ( /\ MapDone
      /\ mgran \in {"daily", "hourly"}
      /\ mcanonical /= <<>>
      /\ SeqToSet(mcanonical) \subseteq Configured )
    => \A f \in SeqToSet(FieldNames) :
         \E v \in SeqToSet(mcanonical) :
           f \in SeqToSet(VARIABLE_CONFIG[v][EffectiveCadence])

\* C5: daily requested for one variable with no daily fields and some
\* hourly fields gives cadence hourly, that variable's hourly fields and
\* exactly one warning, naming the variable.
C5_DailyFallback ==
    ( /\ MapDone
      /\ mgran = "daily"
      /\ Len(mcanonical) = 1
      /\ mcanonical[1] \in Configured
      /\ VARIABLE_CONFIG[mcanonical[1]].daily = <<>>
      /\ VARIABLE_CONFIG[mcanonical[1]].hourly /= <<>> )
    => /\ EffectiveCadence = "hourly"
       /\ FieldNames = VARIABLE_CONFIG[mcanonical[1]].hourly
       /\ Len(MapWarnings) = 1
       /\ MapWarnings[1].var = mcanonical[1]

\* dew_point_2m mapped at daily cadence
C5_Witness ==
    /\ MapDone
    /\ mgran = "daily"
    /\ mcanonical = <<"dew_point_2m">>
    /\ mout = << "hourly", <<"dew_point_2m">>,
                 << [kind |-> "no_daily", var |-> "dew_point_2m"] >> >>


\* C12: an unrecognized identifier given as the only variable, at any
\* requested cadence, maps to the single field temperature_2m at cadence
\* hourly with a warning, and is itself never emitted as a field name.
C12_UnknownGetsDefault ==
    ( /\ MapDone
      /\ Len(mcanonical) = 1
      /\ mcanonical[1] \notin Configured )
    => /\ EffectiveCadence = "hourly"
       /\ FieldNames = <<"temperature_2m">>
       /\ MapWarnings /= <<>>
       /\ ~InList(mcanonical[1], FieldNames)

\* C13: whenever the effective cadence differs from the requested cadence
\* (daily or hourly) the warnings list is non-empty, for every batch,
\* unrecognized identifiers included.
C13_SwitchWarned ==
    ( /\ MapDone
      /\ mgran \in {"daily", "hourly"}
      /\ EffectiveCadence /= mgran )
    => MapWarnings /= <<>>

\* the orderings of a list
Orderings(l) ==
    { [i \in 1..Len(l) |-> l[f[i]]] :
        f \in { g \in [1..Len(l) -> 1..Len(l)] :
                  \A a, b \in 1..Len(l) : a /= b => g[a] /= g[b] } }

\* C25: for every set of configured variables and every requested cadence,
\* all orderings of the set give the same effective cadence and the same
\* set of field names.
C25_OrderIndependent ==
    ( /\ MapDone
      /\ SeqToSet(mcanonical) \subseteq Configured )
    => \A other \in Orderings(mcanonical) :
         /\ _map_vars(other, mgran)[1] = EffectiveCadence
         /\ SeqToSet(_map_vars(other, mgran)[2]) = SeqToSet(FieldNames)

(***************************************************************************)
(* Claims about fetch_openmeteo (SpecFetch)                                *)
(***************************************************************************)
Planned == fpc \in {"route", "mixed_forecast", "respond", "raised"} \/
           (fpc = "returned" /\ CoordsOk)

Returned == fpc = "returned" /\ CoordsOk

CallsTo(endpoint) == { i \in 1..Len(fcalls) : fcalls[i].endpoint = endpoint }

SentStart(i) == FromIsoFormat(fcalls[i].params.start_date)

SentEnd(i) == FromIsoFormat(fcalls[i].params.end_date)

SentDays(i) == SentStart(i)..SentEnd(i)

AllSentDays == UNION { SentDays(i) : i \in 1..Len(fcalls) }

\* a mixed route on a window of at most 31 days that holds today
MixedSpanningToday ==
    /\ Planned
    /\ fplan.time_mode = "mixed"
    /\ fplan.s <= ftoday /\ ftoday <= fplan.e
    /\ (fplan.e - fplan.s) + 1 <= 31

\* what holds of the two halves whatever the forecast horizon does
SplitHalves ==
    /\ Len(fcalls) <= 2
    /\ Cardinality(CallsTo(_ARCHIVE)) <= 1 /\ Cardinality(CallsTo(_FORECAST)) <= 1
    /\ \A i \in CallsTo(_ARCHIVE) :
         /\ fplan.s < ftoday
         /\ SentStart(i) = fplan.s
         /\ SentEnd(i) = Min2(fplan.e, ftoday - 1)
    /\ \A i \in CallsTo(_FORECAST) :
         /\ fcalls[i].s_date = Max2(ftoday, fplan.s) /\ fcalls[i].e_date = fplan.e
         /\ SentStart(i) = Max2(ftoday, fplan.s)
    /\ \A i \in CallsTo(_ARCHIVE), j \in CallsTo(_FORECAST) :
         /\ SentEnd(i) + 1 = SentStart(j)
         /\ SentDays(i) \cap SentDays(j) = {}

C6_PartialResult ==
    LET failed == { i \in 1..Len(fcalls) : fcalls[i].reply.kind = "raise" }
        ok     == { i \in 1..Len(fcalls) : fcalls[i].reply.kind = "ok" }
    IN  ( /\ Planned
          /\ fplan.time_mode = "mixed"
          /\ fpc \in {"returned", "raised"}
          /\ failed /= {} /\ ok /= {} )
        => /\ fpc = "returned"
           /\ \A i \in ok : fresp.data.block = fcalls[i].reply.block
           /\ "warnings" \in DOMAIN fresp
           /\ \E k \in 1..Len(fresp.warnings) : fresp.warnings[k].kind = "partial_result"

\* warnings of a response that the mapper did not produce
RouterWarnings(resp) ==
    IF "warnings" \in DOMAIN resp
    THEN { k \in 1..Len(resp.warnings) :
             resp.warnings[k].kind \notin {"no_daily", "no_hourly", "none_recognized"} }
    ELSE {}

\* C10: when a forecast call's end date was pulled in to today + 16 the
\* returned plan carries a warning about it.
C10_HorizonClampWarned ==
    ( /\ Returned
      /\ \E i \in CallsTo(_FORECAST) : SentEnd(i) < fcalls[i].e_date )
    => RouterWarnings(fresp) /= {}

\* a mixed route whose two calls were both issued and both answered
BothHalvesAnswered ==
    /\ Planned
    /\ fplan.time_mode = "mixed"
    /\ fpc \in {"respond", "returned"}
    /\ Len(fcalls) = 2
    /\ fcalls[1].endpoint = _ARCHIVE /\ fcalls[2].endpoint = _FORECAST
    /\ fcalls[1].reply.kind = "ok" /\ fcalls[2].reply.kind = "ok"

\* the timestamp axis of call i's sub-result
ReplyAxis(i) == GetOrEmpty(fcalls[i].reply.block, "time")

StrictlyIncreasing(axis) == \A i \in 1..(Len(axis) - 1) : axis[i] < axis[i + 1]

\* call i's axis is strictly increasing and inside the range sent
AxisWellFormed(i) ==
    /\ StrictlyIncreasing(ReplyAxis(i))
    /\ \A j \in 1..Len(ReplyAxis(i)) : ReplyAxis(i)[j] \in SentDays(i)

\* C14: in a mixed route whose calls both succeed with strictly increasing
\* axes inside their own sub-ranges, the merged axis is the historical axis
\* followed by the forecast axis, as long as the two together, and strictly
\* increasing.
C14_MergedAxis ==
    (BothHalvesAnswered /\ AxisWellFormed(1) /\ AxisWellFormed(2)) =>
      LET merged == GetOrEmpty(fblock, "time") IN
      /\ merged = ReplyAxis(1) \o ReplyAxis(2)
      /\ Len(merged) = Len(ReplyAxis(1)) + Len(ReplyAxis(2))
      /\ StrictlyIncreasing(merged)
      /\ (fpc = "returned") => GetOrEmpty(fresp.data.block, "time") = merged

\* a returned mixed route: three historical days with a gap, then forecast days
C14_Witness ==
    /\ BothHalvesAnswered /\ fpc = "returned"
    /\ AxisWellFormed(1) /\ AxisWellFormed(2)
    /\ ReplyAxis(1) = <<ftoday - 3, ftoday - 2, ftoday - 1>>
    /\ Len(ReplyAxis(2)) = 2
    /\ ReplyAxis(2)[1] = ftoday + 1
    /\ Len(fresp.data.block["time"]) = 5

\* C15: when both sub-results of a mixed route declare a unit for the same
\* field and the two units differ, the result reports it (a warning or an
\* error).
C15_UnitMismatchReported ==
    ( /\ BothHalvesAnswered /\ fpc = "returned"
      /\ \E k \in DOMAIN fcalls[1].reply.units \cap DOMAIN fcalls[2].reply.units :
           fcalls[1].reply.units[k] /= fcalls[2].reply.units[k] )
    => \/ "error" \in DOMAIN fresp
       \/ RouterWarnings(fresp) /= {}

\* the route has been taken to its end, or an exception ended it
RouteOver == Planned /\ fpc \in {"respond", "returned", "raised"}

\* the time_mode the route must follow: the caller's, or the window's
ModeOfCall ==
    IF fargs.time_mode /= "" THEN fargs.time_mode
    ELSE IF FromIsoFormat(fargs.end_date) < ftoday THEN "hindcast"
    ELSE IF FromIsoFormat(fargs.start_date) > ftoday THEN "forecast"
    ELSE "mixed"

\* C16: hindcast issues exactly one call, to the historical source, for the
\* full unmodified window, and no forecast call; forecast issues exactly
\* one call, to the forecast source, and no historical call; mixed issues
\* at most one call per source, each on its sub-range; the mode is the
\* caller's when supplied and the window's otherwise.
C16_RoutingByMode ==
    Planned =>
      /\ fplan.time_mode = ModeOfCall
      /\ (fpc = "route") => fcalls = <<>>
      /\ ModeOfCall = "hindcast" =>
           /\ CallsTo(_FORECAST) = {}
           /\ RouteOver =>
                /\ Len(fcalls) = 1
                /\ fcalls[1].endpoint = _ARCHIVE
                /\ fcalls[1].params.start_date = fargs.start_date
                /\ fcalls[1].params.end_date = fargs.end_date
      /\ ModeOfCall = "forecast" =>
           /\ CallsTo(_ARCHIVE) = {}
           /\ RouteOver =>
                /\ Len(fcalls) = 1
                /\ fcalls[1].endpoint = _FORECAST
                /\ fcalls[1].s_date = fplan.s /\ fcalls[1].e_date = fplan.e
      /\ ModeOfCall = "mixed" =>
           /\ Cardinality(CallsTo(_ARCHIVE)) <= 1
           /\ Cardinality(CallsTo(_FORECAST)) <= 1
           /\ \A i \in CallsTo(_ARCHIVE) :
                /\ SentStart(i) = fplan.s
                /\ SentEnd(i) = Min2(fplan.e, ftoday - 1)
           /\ \A i \in CallsTo(_FORECAST) :
                /\ fcalls[i].s_date = Max2(ftoday, fplan.s)
                /\ fcalls[i].e_date = fplan.e

\* a caller-supplied hindcast on a window that ends beyond the forecast
\* horizon: one historical call on the whole window
C16_Witness ==
    /\ RouteOver /\ fpc = "returned"
    /\ fargs.time_mode = "hindcast"
    /\ fplan.e > ftoday + _FORECAST_MAX_DAYS
    /\ Len(fcalls) = 1
    /\ fcalls[1].endpoint = _ARCHIVE
    /\ SentDays(1) = fplan.s .. fplan.e

\* the latitude is outside [-90, 90], the longitude outside [-180, 180],
\* or one of them is not numeric
CoordsInvalid ==
    \/ ~fargs.lat.numeric \/ ~fargs.lon.numeric
    \/ fargs.lat.v < -90 \/ fargs.lat.v > 90
    \/ fargs.lon.v < -180 \/ fargs.lon.v > 180

C23_MergedFieldsAligned ==
    ( /\ BothHalvesAnswered /\ fpc = "returned"
      /\ ~IsEmptyDict(fcalls[1].reply.block)
      /\ ~IsEmptyDict(fcalls[2].reply.block) )
    => LET merged == fresp.data.block
           axis   == GetOrEmpty(merged, "time")
       IN  \A k \in DOMAIN merged :
             /\ Len(merged[k]) = Len(axis)
             /\ \A j \in 1..Len(merged[k]) :
                  j <= Len(axis) => merged[k][j] \in {axis[j], Nothing}

\* C24: every call issued to a data source has start_date <= end_date, for
\* every window with start <= end, every today and every time_mode,
\* forecast windows starting more than 16 days after today included.
C24_CallRangesOrdered ==
    \A i \in 1..Len(fcalls) : SentStart(i) <= SentEnd(i)

\* the sources a call was issued to, historical first
IssuedSources ==
    (IF CallsTo(_ARCHIVE) /= {} THEN <<"archive">> ELSE <<>>) \o
    (IF CallsTo(_FORECAST) /= {} THEN <<"forecast">> ELSE <<>>)

\* C26: the source string and the non-empty endpoint_urls entries of the
\* result name exactly the sources a call was issued to, in every
\* time_mode, also for a mixed route that starts on today or ends before
\* today.
C26_SourcesAreIssued ==
    Returned =>
      /\ fresp.source = JoinSources(IssuedSources)
      /\ (fresp.endpoint_urls.archive /= "") <=> (CallsTo(_ARCHIVE) /= {})
      /\ (fresp.endpoint_urls.forecast /= "") <=> (CallsTo(_FORECAST) /= {})

(***************************************************************************)
(* Claims about pick_variables (SpecPick)                                  *)
(***************************************************************************)
PickDone == ppc = "done"

\* no synonym, no canonical identifier and no fallback word occurs in the
\* lower-cased text
NoVariableCue(text) ==
    /\ SynonymPicks(Lower(text)) = <<>>
    /\ ~ContainsAny(Lower(text), <<"rain", "precip", "humidity", "uv", "sunburn", "wind">>)

\* the text names temperature: a synonym of temperature_2m or the identifier
AsksTemperature(text) ==
    \/ ContainsAny(Lower(text), VARIABLE_CONFIG["temperature_2m"].synonyms)
    \/ Contains(Lower(text), "temperature_2m")

\* C11: for a query with no recognized variable cue pick_variables returns
\* exactly the variable temperature_2m, and the result is marked as an
\* assumed default: it differs from the result of every query that names
\* temperature.
C11_DefaultMarked ==
    (PickDone /\ NoVariableCue(pquery)) =>
      /\ pout.variables = <<"temperature_2m">>
      /\ \A text \in QueryTexts :
           AsksTemperature(text) => pick_variables(text) /= pout

\* the text has a "last/past N day" phrase and no now, clock, why or
\* short-horizon cue
LastPastPhraseOnly(text) ==
    LET q == Lower(text) IN
    /\ SearchLastPastDays(q)
    /\ ~SearchNow(q)
    /\ ~SearchClock(q)
    /\ ~ContainsAny(q, <<"why", "cooler", "warmer", "hotter", "colder">>)
    /\ ~SearchShortHorizon(q)

\* the default cadences of the variables in picked
DefaultsOf(picked) ==
    { VARIABLE_CONFIG[picked[i]].default : i \in 1..Len(picked) }

\* C22: with a "last/past N day" phrase and no now, clock, why or
\* short-horizon cue the cadence hint is hourly when relative_humidity_2m
\* is picked (a precipitation-family variable may be picked too), daily
\* when a precipitation-family variable is picked without humidity, and
\* otherwise the picked variables' shared default, hourly when their
\* defaults disagree.
C22_CadenceHint ==
    (PickDone /\ LastPastPhraseOnly(pquery)) =>
      /\ \A i \in 1..Len(pout.variables) : pout.variables[i] \in Configured
      /\ pout.granularity =
           IF InList("relative_humidity_2m", pout.variables) THEN "hourly"
           ELSE IF InList("precipitation", pout.variables)
                   \/ InList("rain", pout.variables)
                   \/ InList("snowfall", pout.variables) THEN "daily"
           ELSE IF Cardinality(DefaultsOf(pout.variables)) = 1
                THEN CHOOSE d \in DefaultsOf(pout.variables) : TRUE
           ELSE "hourly"

\* precipitation and humidity over the last 7 days: hourly
C22_Witness ==
    /\ PickDone
    /\ pquery = "precipitation and humidity for the last 7 days"
    /\ LastPastPhraseOnly(pquery)
    /\ InList("precipitation", pout.variables)
    /\ InList("relative_humidity_2m", pout.variables)
    /\ pout.granularity = "hourly"

\* daily-default and hourly-default variables over the past 30 days: hourly
C22_DefaultsDisagree ==
    /\ PickDone
    /\ pquery = "uv and wind for the past 30 days"
    /\ LastPastPhraseOnly(pquery)
    /\ DefaultsOf(pout.variables) = {"daily", "hourly"}
    /\ pout.granularity = "hourly"

====
